---- MODULE Spec2Model ----
(***************************************************************************)
(* Model of pegasus/src/operator/mod.rs: the fan-in barrier                *)
(* (MultiInputsMerge), the fan-out barrier (MultiOutputsMerge), the        *)
(* strategy selector (DefaultNotify), the default notification wrapper     *)
(* (DefaultNotifyOperator) and the Operator with fire / cancel / close.    *)
(*                                                                         *)
(* Ports are numbered from 0 as in the source.  A TidyTagMap is a function *)
(* whose domain is the set of tags that have an entry.  An Option is a     *)
(* sequence of length 0 (None) or 1 (Some).                                *)
(***************************************************************************)
EXTENDS Integers, Sequences, FiniteSets, TLC

\* ---------------------------------------------------------------- bounds
MaxInputs == 2
MaxOutputs == 2
MaxScopeLevel == 1
MaxEvents == 3
MaxFires == 2
MaxBarrierPorts == 3

\* Indices used inside a tag.
TagIdx == {0}

RECURSIVE TagsOfLen(_)
TagsOfLen(n) ==
    IF n = 0 THEN {<<>>}
    ELSE {Append(t, i) : t \in TagsOfLen(n - 1), i \in TagIdx}

Tags == UNION {TagsOfLen(n) : n \in 0..MaxScopeLevel}

\* ---------------------------------------------------------------- Weight
\* A weight is a multiset of atoms; merge is multiset sum (associative and
\* commutative, and a contribution merged twice shows).  The end of scope
\* tag seen by input p carries the weight of the one atom <<p, tag>>.
MaxPorts == IF MaxInputs > MaxBarrierPorts THEN MaxInputs ELSE MaxBarrierPorts
WeightAtoms == (0..(MaxPorts - 1)) \X Tags
WeightOf(a) == [x \in WeightAtoms |-> IF x = a THEN 1 ELSE 0]
ZeroWeight == [x \in WeightAtoms |-> 0]
Weight_merge(w1, w2) == [x \in WeightAtoms |-> w1[x] + w2[x]]

RECURSIVE MergeAll(_)
MergeAll(ws) ==
    IF ws = <<>> THEN ZeroWeight
    ELSE Weight_merge(Head(ws), MergeAll(Tail(ws)))

\* ---------------------------------------------------------------- maps
MapHas(m, k) == k \in DOMAIN m
MapRemove(m, k) == [t \in (DOMAIN m) \ {k} |-> m[t]]
MapInsert(m, k, v) == [t \in (DOMAIN m) \cup {k} |-> IF t = k THEN v ELSE m[t]]
EmptyMap == [t \in {} |-> {}]

None == <<>>
Some(x) == <<x>>

\* ---------------------------------------------------------------- MultiInputsMerge
\* One TidyTagMap per level 0..scope_level; level l is at index l.
MultiInputsMerge_new(input_size, scope_level) ==
    [input_size |-> input_size,
     end_merge |-> [i \in 0..scope_level |-> EmptyMap]]

\* Mutant: a report from a port already recorded is counted again.
MultiInputsMerge_merge_end_counting_reports(mim, n) ==
    LET idx == Len(n.tag)
        removed == [mim EXCEPT !.end_merge[idx] = MapRemove(@, n.tag)]
    IN  IF MapHas(mim.end_merge[idx], n.tag)
        THEN LET merged == mim.end_merge[idx][n.tag].scope
                 count == mim.end_merge[idx][n.tag].count
                 merged2 == [merged EXCEPT !.weight = Weight_merge(@, n.weight)]
                 count2 == count \cup {n.port}
                 reports == IF n.port \in count THEN Cardinality(count) + 1
                            ELSE Cardinality(count2)
             IN  IF reports = mim.input_size
                 THEN [self |-> removed, ret |-> Some(merged2)]
                 ELSE [self |-> [removed EXCEPT !.end_merge[idx] =
                                   MapInsert(@, n.tag, [scope |-> merged2, count |-> count2])],
                       ret |-> None]
        ELSE [self |-> [mim EXCEPT !.end_merge[idx] =
                          MapInsert(@, n.tag, [scope |-> n, count |-> {n.port}])],
              ret |-> None]

\* Mutant: the incoming weight is not merged into the stored one.
MultiInputsMerge_merge_end_weight_not_merged(mim, n) ==
    LET idx == Len(n.tag)
        removed == [mim EXCEPT !.end_merge[idx] = MapRemove(@, n.tag)]
    IN  IF MapHas(mim.end_merge[idx], n.tag)
        THEN LET merged == mim.end_merge[idx][n.tag].scope
                 count == mim.end_merge[idx][n.tag].count
             IN  IF n.port \notin count
                 THEN LET count2 == count \cup {n.port}
                      IN  IF Cardinality(count2) = mim.input_size
                          THEN [self |-> removed, ret |-> Some(merged)]
                          ELSE [self |-> [removed EXCEPT !.end_merge[idx] =
                                            MapInsert(@, n.tag, [scope |-> merged, count |-> count2])],
                                ret |-> None]
                 ELSE [self |-> removed, ret |-> None]
        ELSE [self |-> [mim EXCEPT !.end_merge[idx] =
                          MapInsert(@, n.tag, [scope |-> n, count |-> {n.port}])],
              ret |-> None]

\* Mutant: the entry of a completed tag stays in the map.
MultiInputsMerge_merge_end_keeping_entry(mim, n) ==
    LET idx == Len(n.tag)
        removed == [mim EXCEPT !.end_merge[idx] = MapRemove(@, n.tag)]
    IN  IF MapHas(mim.end_merge[idx], n.tag)
        THEN LET merged == mim.end_merge[idx][n.tag].scope
                 count == mim.end_merge[idx][n.tag].count
             IN  IF n.port \notin count
                 THEN LET merged2 == [merged EXCEPT !.weight = Weight_merge(@, n.weight)]
                          count2 == count \cup {n.port}
                          kept == [removed EXCEPT !.end_merge[idx] =
                                     MapInsert(@, n.tag, [scope |-> merged2, count |-> count2])]
                      IN  IF Cardinality(count2) = mim.input_size
                          THEN [self |-> kept, ret |-> Some(merged2)]
                          ELSE [self |-> kept, ret |-> None]
                 ELSE [self |-> removed, ret |-> None]
        ELSE [self |-> [mim EXCEPT !.end_merge[idx] =
                          MapInsert(@, n.tag, [scope |-> n, count |-> {n.port}])],
              ret |-> None]

\* Mutant: the incoming weight replaces the stored one.
MultiInputsMerge_merge_end_weight_replaced(mim, n) ==
    LET idx == Len(n.tag)
        removed == [mim EXCEPT !.end_merge[idx] = MapRemove(@, n.tag)]
    IN  IF MapHas(mim.end_merge[idx], n.tag)
        THEN LET merged == mim.end_merge[idx][n.tag].scope
                 count == mim.end_merge[idx][n.tag].count
             IN  IF n.port \notin count
                 THEN LET merged2 == [merged EXCEPT !.weight = n.weight]
                          count2 == count \cup {n.port}
                      IN  IF Cardinality(count2) = mim.input_size
                          THEN [self |-> removed, ret |-> Some(merged2)]
                          ELSE [self |-> [removed EXCEPT !.end_merge[idx] =
                                            MapInsert(@, n.tag, [scope |-> merged2, count |-> count2])],
                                ret |-> None]
                 ELSE [self |-> removed, ret |-> None]
        ELSE [self |-> [mim EXCEPT !.end_merge[idx] =
                          MapInsert(@, n.tag, [scope |-> n, count |-> {n.port}])],
              ret |-> None]

\* merge_end(&mut self, n) -> Option<EndScope>; the result is the pair of
\* the barrier afterwards and the returned option.
MultiInputsMerge_merge_end(mim, n) ==
    LET idx == Len(n.tag)
        removed == [mim EXCEPT !.end_merge[idx] = MapRemove(@, n.tag)]
    IN  IF MapHas(mim.end_merge[idx], n.tag)
        THEN LET merged == mim.end_merge[idx][n.tag].scope
                 count == mim.end_merge[idx][n.tag].count
             IN  IF n.port \notin count
                 THEN LET merged2 == [merged EXCEPT !.weight = Weight_merge(@, n.weight)]
                          count2 == count \cup {n.port}
                      IN  IF Cardinality(count2) = mim.input_size
                          THEN [self |-> removed, ret |-> Some(merged2)]
                          ELSE [self |-> [removed EXCEPT !.end_merge[idx] =
                                            MapInsert(@, n.tag, [scope |-> merged2, count |-> count2])],
                                ret |-> None]
                 ELSE [self |-> removed, ret |-> None]
        ELSE [self |-> [mim EXCEPT !.end_merge[idx] =
                          MapInsert(@, n.tag, [scope |-> n, count |-> {n.port}])],
              ret |-> None]

\* ---------------------------------------------------------------- MultiOutputsMerge
MultiOutputsMerge_new(output_size, scope_level) ==
    [output_size |-> output_size,
     cancel_merge |-> [i \in 0..scope_level |-> EmptyMap]]

\* Mutant: every request is counted, also one of a port already recorded.
MultiOutputsMerge_merge_cancel_counting_requests(mom, n) ==
    LET level == Len(n.tag)
        removed == [mom EXCEPT !.cancel_merge[level] = MapRemove(@, n.tag)]
    IN  IF MapHas(mom.cancel_merge[level], n.tag)
        THEN LET in_merge == mom.cancel_merge[level][n.tag] \cup {n.port}
                 left == mom.output_size - (Cardinality(mom.cancel_merge[level][n.tag]) + 1)
             IN  IF left = 0
                 THEN [self |-> removed, ret |-> Some(n.tag)]
                 ELSE [self |-> [removed EXCEPT !.cancel_merge[level] =
                                   MapInsert(@, n.tag, in_merge)],
                       ret |-> None]
        ELSE [self |-> [mom EXCEPT !.cancel_merge[level] =
                          MapInsert(@, n.tag, {n.port})],
              ret |-> None]

\* Mutant: a request of a port already recorded loses the entry.
MultiOutputsMerge_merge_cancel_dropping_entry(mom, n) ==
    LET level == Len(n.tag)
        removed == [mom EXCEPT !.cancel_merge[level] = MapRemove(@, n.tag)]
    IN  IF MapHas(mom.cancel_merge[level], n.tag)
        THEN IF n.port \in mom.cancel_merge[level][n.tag]
             THEN [self |-> removed, ret |-> None]
             ELSE LET in_merge == mom.cancel_merge[level][n.tag] \cup {n.port}
                      left == mom.output_size - Cardinality(in_merge)
                  IN  IF left = 0
                      THEN [self |-> removed, ret |-> Some(n.tag)]
                      ELSE [self |-> [removed EXCEPT !.cancel_merge[level] =
                                        MapInsert(@, n.tag, in_merge)],
                            ret |-> None]
        ELSE [self |-> [mom EXCEPT !.cancel_merge[level] =
                          MapInsert(@, n.tag, {n.port})],
              ret |-> None]

\* Mutant: an agreed cancel of a tag also drops what is pending for the
\* tags nested under it.
MultiOutputsMerge_merge_cancel_cascading(mom, n) ==
    LET level == Len(n.tag)
        removed == [mom EXCEPT !.cancel_merge[level] = MapRemove(@, n.tag)]
        Under(u) == Len(n.tag) <= Len(u) /\ SubSeq(u, 1, Len(n.tag)) = n.tag
        pruned == [mom EXCEPT !.cancel_merge =
                     [l \in DOMAIN @ |->
                        [t \in {u \in DOMAIN @[l] : ~Under(u)} |-> @[l][t]]]]
    IN  IF MapHas(mom.cancel_merge[level], n.tag)
        THEN LET in_merge == mom.cancel_merge[level][n.tag] \cup {n.port}
                 left == mom.output_size - Cardinality(in_merge)
             IN  IF left = 0
                 THEN [self |-> pruned, ret |-> Some(n.tag)]
                 ELSE [self |-> [removed EXCEPT !.cancel_merge[level] =
                                   MapInsert(@, n.tag, in_merge)],
                       ret |-> None]
        ELSE [self |-> [mom EXCEPT !.cancel_merge[level] =
                          MapInsert(@, n.tag, {n.port})],
              ret |-> None]

\* merge_cancel(&mut self, n) -> Option<Tag>
MultiOutputsMerge_merge_cancel(mom, n) ==
    LET level == Len(n.tag)
        removed == [mom EXCEPT !.cancel_merge[level] = MapRemove(@, n.tag)]
    IN  IF MapHas(mom.cancel_merge[level], n.tag)
        THEN LET in_merge == mom.cancel_merge[level][n.tag] \cup {n.port}
                 left == mom.output_size - Cardinality(in_merge)
             IN  IF left = 0
                 THEN [self |-> removed, ret |-> Some(n.tag)]
                 ELSE [self |-> [removed EXCEPT !.cancel_merge[level] =
                                   MapInsert(@, n.tag, in_merge)],
                       ret |-> None]
        ELSE [self |-> [mom EXCEPT !.cancel_merge[level] =
                          MapInsert(@, n.tag, {n.port})],
              ret |-> None]

\* ---------------------------------------------------------------- DefaultNotify
\* The enum is a record: kind names the variant, mim / mom are the
\* payloads; a variant without a payload carries an absent one (<<>>).
\* Mutant: the sizes are compared with >= 1, so one port also gets a barrier.
DefaultNotify_new_from_one_port(input_size, output_size, scope_level) ==
    IF input_size >= 1
    THEN IF output_size >= 1
         THEN [kind |-> "MIMO",
               mim |-> Some(MultiInputsMerge_new(input_size, scope_level)),
               mom |-> Some(MultiOutputsMerge_new(output_size, scope_level))]
         ELSE [kind |-> "MISO",
               mim |-> Some(MultiInputsMerge_new(input_size, scope_level)),
               mom |-> None]
    ELSE IF output_size >= 1
         THEN [kind |-> "SIMO",
               mim |-> None,
               mom |-> Some(MultiOutputsMerge_new(output_size, scope_level))]
         ELSE [kind |-> "SISO", mim |-> None, mom |-> None]

\* Mutant: several inputs always get both barriers, whatever the outputs.
DefaultNotify_new_both_for_inputs(input_size, output_size, scope_level) ==
    IF input_size > 1
    THEN [kind |-> "MIMO",
          mim |-> Some(MultiInputsMerge_new(input_size, scope_level)),
          mom |-> Some(MultiOutputsMerge_new(output_size, scope_level))]
    ELSE IF output_size > 1
         THEN [kind |-> "SIMO",
               mim |-> None,
               mom |-> Some(MultiOutputsMerge_new(output_size, scope_level))]
         ELSE [kind |-> "SISO", mim |-> None, mom |-> None]

DefaultNotify_new(input_size, output_size, scope_level) ==
    IF input_size > 1
    THEN IF output_size > 1
         THEN [kind |-> "MIMO",
               mim |-> Some(MultiInputsMerge_new(input_size, scope_level)),
               mom |-> Some(MultiOutputsMerge_new(output_size, scope_level))]
         ELSE [kind |-> "MISO",
               mim |-> Some(MultiInputsMerge_new(input_size, scope_level)),
               mom |-> None]
    ELSE IF output_size > 1
         THEN [kind |-> "SIMO",
               mim |-> None,
               mom |-> Some(MultiOutputsMerge_new(output_size, scope_level))]
         ELSE [kind |-> "SISO", mim |-> None, mom |-> None]

DefaultNotify_merge_end(notify, end) ==
    IF notify.kind \in {"SISO", "SIMO"}
    THEN [self |-> notify, ret |-> Some(end)]
    ELSE LET r == MultiInputsMerge_merge_end(notify.mim[1], end)
         IN  [self |-> [notify EXCEPT !.mim = Some(r.self)], ret |-> r.ret]

DefaultNotify_merge_cancel(notify, cancel) ==
    IF notify.kind \in {"SISO", "MISO"}
    THEN [self |-> notify, ret |-> Some(cancel.tag)]
    ELSE LET r == MultiOutputsMerge_merge_cancel(notify.mom[1], cancel)
         IN  [self |-> [notify EXCEPT !.mom = Some(r.self)], ret |-> r.ret]

\* ---------------------------------------------------------------- state
VARIABLES
    inputs,      \* Operator.inputs: port -> [ends, cancelled, exhaust]
    outputs,     \* Operator.outputs: port -> [ends, cancelled, blocks, closed]
    core,        \* Operator.core: the DefaultNotifyOperator's notify
    fire_times,  \* Operator.fire_times
    exec_st,     \* Operator.exec_st
    closed,      \* close() has been called
    notified,    \* history: tag -> input port -> weights of the EndScopes given to on_notify
    cancel_calls,\* history: tag -> output ports cancel(port, tag) was called for
    io_failed,   \* history: some boundary call has failed
    calls,       \* boundary calls made by the last operation, in order
    ret,         \* the last operation and what it returned
    bar          \* two barriers of each kind fed one set of ports in two orders

opvars == <<inputs, outputs, core, fire_times, exec_st, closed,
            notified, cancel_calls, io_failed, calls, ret>>
vars == <<opvars, bar>>

InputPorts == DOMAIN inputs
OutputPorts == DOMAIN outputs

Call(fn, port, tag, ok) == [fn |-> fn, port |-> port, tag |-> tag, ok |-> ok]
NoTag == <<>>

\* Elapsed microseconds a fire() measures.
Elapsed == {1}

\* ---------------------------------------------------------------- DefaultNotifyOperator
\* Mutant: notify_end is called on the outputs in port order.
NotifyOrder_ascending(n) == [k \in 1..n |-> k - 1]

\* The ports notify_end is called on, in the order of the calls.
NotifyOrder(n) == [k \in 1..n |-> IF k = n THEN 0 ELSE k]

\* The calls outputs[order[1]], outputs[order[2]], ... .notify_end(sig)?
\* st.fail counts down to the notify_end call that fails (0: none fails).
RECURSIVE NotifyAll(_, _, _)
NotifyAll(st, order, sig) ==
    IF order = <<>> THEN st
    ELSE LET o == Head(order)
         IN  IF st.fail = 1
             THEN [st EXCEPT !.calls = Append(@, Call("notify_end", o, sig.tag, FALSE)),
                             !.fail = 0,
                             !.err = "IOError"]
             ELSE NotifyAll(
                    [st EXCEPT !.calls = Append(@, Call("notify_end", o, sig.tag, TRUE)),
                               !.outputs[o].ends = Append(@, sig),
                               !.fail = IF @ = 0 THEN 0 ELSE @ - 1],
                    Tail(order), sig)

\* on_notify(&mut self, n, outputs) -> Result; st.err is the result.
on_notify(st, n) ==
    IF DOMAIN st.outputs # {}
    THEN LET r == DefaultNotify_merge_end(st.core, n)
             st2 == [st EXCEPT !.core = r.self]
         IN  IF r.ret # None
             THEN NotifyAll(st2, NotifyOrder(Cardinality(DOMAIN st.outputs)),
                            [tag |-> r.ret[1].tag, weight |-> r.ret[1].weight])
             ELSE st2
    ELSE st

\* The calls input.cancel_scope(&cancel) for the inputs from port p on.
RECURSIVE CancelAll(_, _, _)
CancelAll(st, p, tag) ==
    IF p \notin DOMAIN st.inputs THEN st
    ELSE CancelAll(
           [st EXCEPT !.calls = Append(@, Call("cancel_scope", p, tag, TRUE)),
                      !.inputs[p].cancelled = Append(@, tag)],
           p + 1, tag)

\* on_cancel(&mut self, n, inputs) -> Result (always Ok)
on_cancel(st, n) ==
    IF DOMAIN st.inputs # {}
    THEN LET r == DefaultNotify_merge_cancel(st.core, n)
             st2 == [st EXCEPT !.core = r.self]
         IN  IF r.ret # None THEN CancelAll(st2, 0, r.ret[1]) ELSE st2
    ELSE st

\* ---------------------------------------------------------------- Operator
\* The tags in a fixed order: the order get_blocks() lists blocked scopes in.
RECURSIVE SetToSeq(_)
SetToSeq(S) ==
    IF S = {} THEN <<>>
    ELSE LET x == CHOOSE y \in S : \A z \in S : Len(y) <= Len(z)
         IN  <<x>> \o SetToSeq(S \ {x})

TagSeq == SetToSeq(Tags)

\* Mutant: the outputs' blocked scopes are not looked at.
is_finished_ignoring_blocks ==
    InputPorts = {} \/ \A i \in InputPorts : inputs[i].exhaust

\* is_finished(&self) -> bool
is_finished ==
    IF \E o \in OutputPorts : DOMAIN outputs[o].blocks # {}
    THEN FALSE
    ELSE InputPorts = {} \/ \A i \in InputPorts : inputs[i].exhaust

\* fire, step 1: output.try_unblock()? for the outputs from port o on.
\* rel[o] are the blocked scopes output o releases; output ufail fails.
RECURSIVE UnblockAll(_, _, _, _)
UnblockAll(st, o, rel, ufail) ==
    IF o \notin DOMAIN st.outputs THEN st
    ELSE IF o = ufail
         THEN [st EXCEPT !.calls = Append(@, Call("try_unblock", o, NoTag, FALSE)),
                         !.err = "IOError"]
         ELSE UnblockAll(
                [st EXCEPT !.calls = Append(@, Call("try_unblock", o, NoTag, TRUE)),
                           !.outputs[o].blocks =
                               [t \in (DOMAIN @) \ rel[o] |-> @[t]]],
                o + 1, rel, ufail)

\* fire, step 2: core.on_receive(inputs, outputs).  The computation is
\* external: it returns res and may leave one more blocked scope nb on an
\* output (no input registered for it yet); the call is recorded with it.
on_receive(st, res, nb) ==
    LET st1 == [st EXCEPT !.calls = Append(@,
                   [fn |-> "on_receive", port |-> 0, tag |-> NoTag,
                    ok |-> (res = "Ok"), blocked |-> nb])]
    IN  IF nb = None THEN st1
        ELSE [st1 EXCEPT !.outputs[nb[1].port].blocks = MapInsert(@, nb[1].tag, {})]

\* fire, step 3: the (output, blocked scope, input) triples in loop order.
BlockTriples(st) ==
    LET M == Cardinality(DOMAIN st.outputs)
        N == Cardinality(DOMAIN st.inputs)
        T == Len(TagSeq)
    IN  [k \in 1..(M * T * N) |->
            [out |-> (k - 1) \div (T * N),
             tag |-> TagSeq[(((k - 1) \div N) % T) + 1],
             index |-> (k - 1) % N]]

\* Mutant: has_block is not asked; every input is blocked for every
\* blocked scope in every fire.
RegisterBlocks_ignoring_has_block(st) ==
    LET Needs(x) == x.tag \in DOMAIN st.outputs[x.out].blocks
        todo == SelectSeq(BlockTriples(st), Needs)
    IN  [st EXCEPT
            !.calls = @ \o [k \in 1..Len(todo) |->
                              Call("block", todo[k].index, todo[k].tag, TRUE)],
            !.outputs = [o \in DOMAIN st.outputs |->
                           [st.outputs[o] EXCEPT !.blocks =
                               [t \in DOMAIN @ |-> @[t] \cup DOMAIN st.inputs]]]]

RegisterBlocks(st) ==
    LET Needs(x) == /\ x.tag \in DOMAIN st.outputs[x.out].blocks
                    /\ x.index \notin st.outputs[x.out].blocks[x.tag]
        todo == SelectSeq(BlockTriples(st), Needs)
    IN  [st EXCEPT
            !.calls = @ \o [k \in 1..Len(todo) |->
                              Call("block", todo[k].index, todo[k].tag, TRUE)],
            !.outputs = [o \in DOMAIN st.outputs |->
                           [st.outputs[o] EXCEPT !.blocks =
                               [t \in DOMAIN @ |-> @[t] \cup DOMAIN st.inputs]]]]

\* fire, step 5: while let Some(end) = input.extract_end() { on_notify(..)? }
\* for the inputs from port p on.
RECURSIVE Drain(_, _)
Drain(st, p) ==
    IF p \notin DOMAIN st.inputs \/ st.err # "Ok" THEN st
    ELSE IF st.inputs[p].ends = <<>> THEN Drain(st, p + 1)
    ELSE LET end == Head(st.inputs[p].ends)
             notification == [port |-> p, tag |-> end.tag, weight |-> end.weight]
             st1 == [st EXCEPT
                       !.inputs[p].ends = Tail(@),
                       !.calls = Append(@, Call("extract_end", p, end.tag, TRUE)),
                       !.notified[end.tag][p] = Append(@, end.weight)]
         IN  Drain(on_notify(st1, notification), p)

\* fire, step 6: output.flush()? for the outputs from port o on.
RECURSIVE FlushAll(_, _, _)
FlushAll(st, o, ffail) ==
    IF o \notin DOMAIN st.outputs THEN st
    ELSE IF o = ffail
         THEN [st EXCEPT !.calls = Append(@, Call("flush", o, NoTag, FALSE)),
                         !.err = "IOError"]
         ELSE FlushAll([st EXCEPT !.calls = Append(@, Call("flush", o, NoTag, TRUE))],
                       o + 1, ffail)

\* Mutant: a failing notify_end is remembered like a computation error:
\* the outputs are still flushed and the failure is returned at the end.
fire_body_io_error_deferred(st, rel, ufail, res, nb, nfail, ffail) ==
    LET s1 == UnblockAll(st, 0, rel, ufail)
    IN  IF s1.err # "Ok" THEN s1
        ELSE LET s3 == RegisterBlocks(on_receive(s1, res, nb))
             IN  IF res = "Fatal" THEN [s3 EXCEPT !.err = "Fatal"]
                 ELSE LET s5 == Drain([s3 EXCEPT !.fail = nfail], 0)
                          s6 == FlushAll([s5 EXCEPT !.err = "Ok"], 0, ffail)
                      IN  IF s5.err # "Ok" THEN [s6 EXCEPT !.err = s5.err]
                          ELSE IF s6.err # "Ok" THEN s6
                          ELSE [s6 EXCEPT !.err = res]

\* Mutant: a retryable error returns at once, as a fatal one does.
fire_body_retry_returns(st, rel, ufail, res, nb, nfail, ffail) ==
    LET s1 == UnblockAll(st, 0, rel, ufail)
    IN  IF s1.err # "Ok" THEN s1
        ELSE LET s3 == RegisterBlocks(on_receive(s1, res, nb))
             IN  IF res # "Ok" THEN [s3 EXCEPT !.err = res]
                 ELSE LET s5 == Drain([s3 EXCEPT !.fail = nfail], 0)
                      IN  IF s5.err # "Ok" THEN s5
                          ELSE LET s6 == FlushAll(s5, 0, ffail)
                               IN  IF s6.err # "Ok" THEN s6
                                   ELSE [s6 EXCEPT !.err = res]

\* Mutant: a fatal error is remembered and returned at the end, as a
\* retryable one is.
fire_body_fatal_continues(st, rel, ufail, res, nb, nfail, ffail) ==
    LET s1 == UnblockAll(st, 0, rel, ufail)
    IN  IF s1.err # "Ok" THEN s1
        ELSE LET s3 == RegisterBlocks(on_receive(s1, res, nb))
                 s5 == Drain([s3 EXCEPT !.fail = nfail], 0)
             IN  IF s5.err # "Ok" THEN s5
                 ELSE LET s6 == FlushAll(s5, 0, ffail)
                      IN  IF s6.err # "Ok" THEN s6
                          ELSE [s6 EXCEPT !.err = res]

\* The body of fire(): the state it leaves and the result it returns.
fire_body(st, rel, ufail, res, nb, nfail, ffail) ==
    LET s1 == UnblockAll(st, 0, rel, ufail)
    IN  IF s1.err # "Ok" THEN s1
        ELSE LET s3 == RegisterBlocks(on_receive(s1, res, nb))
             IN  IF res = "Fatal" THEN [s3 EXCEPT !.err = "Fatal"]
                 ELSE LET s5 == Drain([s3 EXCEPT !.fail = nfail], 0)
                      IN  IF s5.err # "Ok" THEN s5
                          ELSE LET s6 == FlushAll(s5, 0, ffail)
                               IN  IF s6.err # "Ok" THEN s6
                                   ELSE [s6 EXCEPT !.err = res]

\* The operator's state as the operations thread it.
Here ==
    [inputs |-> inputs, outputs |-> outputs, core |-> core,
     notified |-> notified, calls |-> <<>>, fail |-> 0, err |-> "Ok"]

CountCalls(cs, fn) == Len(SelectSeq(cs, LAMBDA c : c.fn = fn))

RECURSIVE SumOver(_, _)
SumOver(S, f) ==
    IF S = {} THEN 0
    ELSE LET x == CHOOSE y \in S : TRUE
         IN  f[x] + SumOver(S \ {x}, f)

\* End records handed to the inputs so far, and cancel() calls so far.
EndsTotal ==
    SumOver(InputPorts, [p \in InputPorts |->
        Len(inputs[p].ends) + SumOver(Tags, [t \in Tags |-> Len(notified[t][p])])])
CancelsTotal ==
    SumOver(Tags, [t \in Tags |->
        SumOver(OutputPorts, [o \in OutputPorts |-> cancel_calls[t][o]])])

ExhaustTotal == Cardinality({p \in InputPorts : inputs[p].exhaust})
BlocksTotal ==
    SumOver(OutputPorts, [o \in OutputPorts |-> Cardinality(DOMAIN outputs[o].blocks)])

\* What the operator's surroundings have done to it so far.
EventsTotal == EndsTotal + CancelsTotal + ExhaustTotal + BlocksTotal

Ret(op, port, tag, result, recv) ==
    [op |-> op, port |-> port, tag |-> tag, result |-> result, recv |-> recv]

\* OperatorBuilder::build with a GeneralOperator::Simple core, N inputs and
\* M built outputs, at scope level MaxScopeLevel.
InitOperator(N, M) ==
        /\ inputs = [p \in 0..(N - 1) |->
                        [ends |-> <<>>, cancelled |-> <<>>, exhaust |-> FALSE]]
        /\ outputs = [o \in 0..(M - 1) |->
                        [ends |-> <<>>, cancelled |-> {}, blocks |-> EmptyMap,
                         closed |-> FALSE]]
        /\ core = DefaultNotify_new(N, M, MaxScopeLevel)
        /\ fire_times = 0
        /\ exec_st = 0
        /\ closed = FALSE
        /\ notified = [t \in Tags |-> [p \in 0..(N - 1) |-> <<>>]]
        /\ cancel_calls = [t \in Tags |-> [o \in 0..(M - 1) |-> 0]]
        /\ io_failed = FALSE
        /\ calls = <<>>
        /\ ret = Ret("build", 0, NoTag, "Ok", "None")

NoBarrierRun == [size |-> 0]

Init ==
    /\ \E N \in 0..MaxInputs, M \in 0..MaxOutputs : InitOperator(N, M)
    /\ bar = NoBarrierRun

\* The data plane: input p observes the end of scope tag; extract_end()
\* will return it.
InputEnd(p, tag) ==
    /\ ~closed
    /\ p \in InputPorts
    /\ ~inputs[p].exhaust
    /\ EventsTotal < MaxEvents
    /\ inputs' = [inputs EXCEPT ![p].ends = Append(@, [tag |-> tag, weight |-> WeightOf(<<p, tag>>)])]
    /\ calls' = <<>>
    /\ ret' = Ret("input_end", p, tag, "Ok", "None")
    /\ UNCHANGED <<outputs, core, fire_times, exec_st, closed, notified,
                   cancel_calls, io_failed, bar>>

\* The data plane: input p becomes exhausted.
InputExhaust(p) ==
    /\ ~closed
    /\ p \in InputPorts
    /\ ~inputs[p].exhaust
    /\ EventsTotal < MaxEvents
    /\ inputs' = [inputs EXCEPT ![p].exhaust = TRUE]
    /\ calls' = <<>>
    /\ ret' = Ret("input_exhaust", p, NoTag, "Ok", "None")
    /\ UNCHANGED <<outputs, core, fire_times, exec_st, closed, notified,
                   cancel_calls, io_failed, bar>>

\* The outcomes the collaborators can give one fire(): the scopes the
\* outputs release (rel), the output whose try_unblock / flush fails (ufail,
\* ffail; the number of outputs: none), the result of on_receive (res), the
\* scope it leaves blocked (nb) and the notify_end call that fails (nfail;
\* 0: none).  Choices behind the first failure are not enumerated.
FireChoices ==
    LET M == Cardinality(OutputPorts)
        Rels == {rel \in [OutputPorts -> SUBSET Tags] :
                    \A o \in OutputPorts : rel[o] \subseteq DOMAIN outputs[o].blocks}
        Nbs(rel) == {None} \cup
                    {Some(x) : x \in {y \in [port : OutputPorts, tag : Tags] :
                        /\ y.tag \notin (DOMAIN outputs[y.port].blocks) \ rel[y.port]
                        /\ EventsTotal < MaxEvents}}
        Choice(rel, ufail, res, nb, nfail, ffail) ==
            [rel |-> rel, ufail |-> ufail, res |-> res, nb |-> nb,
             nfail |-> nfail, ffail |-> ffail]
        Quiet(rel, res, nb) == fire_body(Here, rel, M, res, nb, 0, M)
    IN  UNION {
          {Choice(rel, ufail, "Ok", None, 0, M) : ufail \in 0..(M - 1)}
          \cup UNION {
             {Choice(rel, M, "Fatal", nb, 0, M)}
             \cup UNION {
                {Choice(rel, M, res, nb, nfail, M) :
                    nfail \in 1..CountCalls(Quiet(rel, res, nb).calls, "notify_end")}
                \cup {Choice(rel, M, res, nb, 0, ffail) : ffail \in 0..M}
                : res \in {"Ok", "Retry"}}
             : nb \in Nbs(rel)}
          : rel \in Rels}

\* Mutant: the fire is counted and timed where fire() returns at its end,
\* so an early return leaves the statistics as they were.
fire_counting_at_the_end ==
    /\ ~closed
    /\ fire_times < MaxFires
    /\ \E c \in FireChoices, elapsed \in Elapsed :
         LET st == fire_body(Here, c.rel, c.ufail, c.res, c.nb, c.nfail, c.ffail)
             done == st.err \in {"Ok", "Retry"}
         IN  /\ inputs' = st.inputs
             /\ outputs' = st.outputs
             /\ core' = st.core
             /\ notified' = st.notified
             /\ calls' = st.calls
             /\ io_failed' = (io_failed \/ st.err = "IOError")
             /\ ret' = Ret("fire", 0, NoTag, st.err,
                           IF CountCalls(st.calls, "on_receive") = 0
                           THEN "None" ELSE c.res)
             /\ fire_times' = IF done THEN fire_times + 1 ELSE fire_times
             /\ exec_st' = IF done THEN exec_st + elapsed ELSE exec_st
    /\ UNCHANGED <<closed, cancel_calls, bar>>

\* Operator::fire
fire ==
    /\ ~closed
    /\ fire_times < MaxFires
    /\ \E c \in FireChoices, elapsed \in Elapsed :
         LET st == fire_body(Here, c.rel, c.ufail, c.res, c.nb, c.nfail, c.ffail)
         IN  /\ inputs' = st.inputs
             /\ outputs' = st.outputs
             /\ core' = st.core
             /\ notified' = st.notified
             /\ calls' = st.calls
             /\ io_failed' = (io_failed \/ st.err = "IOError")
             /\ ret' = Ret("fire", 0, NoTag, st.err,
                           IF CountCalls(st.calls, "on_receive") = 0
                           THEN "None" ELSE c.res)
             /\ fire_times' = fire_times + 1
             /\ exec_st' = exec_st + elapsed
    /\ UNCHANGED <<closed, cancel_calls, bar>>

\* Mutant: the request is routed through on_cancel whether or not the
\* output's own cancel succeeded; the failure is returned afterwards.
cancel_routing_regardless(port, tag) ==
    /\ ~closed
    /\ port \in OutputPorts
    /\ EventsTotal < MaxEvents
    /\ cancel_calls' = [cancel_calls EXCEPT ![tag][port] = @ + 1]
    /\ \E ok \in BOOLEAN :
         LET s0 == [Here EXCEPT !.calls = <<Call("cancel", port, tag, ok)>>]
             s1 == IF ok THEN [s0 EXCEPT !.outputs[port].cancelled = @ \cup {tag}]
                   ELSE s0
             st == on_cancel(s1, [port |-> port, tag |-> tag])
         IN  /\ inputs' = st.inputs
             /\ outputs' = st.outputs
             /\ core' = st.core
             /\ calls' = st.calls
             /\ io_failed' = (io_failed \/ ~ok)
             /\ ret' = Ret("cancel", port, tag, IF ok THEN "Ok" ELSE "IOError", "None")
    /\ UNCHANGED <<fire_times, exec_st, closed, notified, bar>>

\* Operator::cancel
cancel(port, tag) ==
    /\ ~closed
    /\ port \in OutputPorts
    /\ EventsTotal < MaxEvents
    /\ cancel_calls' = [cancel_calls EXCEPT ![tag][port] = @ + 1]
    /\ \E ok \in BOOLEAN :
         LET s0 == [Here EXCEPT !.calls = <<Call("cancel", port, tag, ok)>>]
             st == IF ok
                   THEN on_cancel([s0 EXCEPT !.outputs[port].cancelled = @ \cup {tag}],
                                  [port |-> port, tag |-> tag])
                   ELSE [s0 EXCEPT !.err = "IOError"]
         IN  /\ inputs' = st.inputs
             /\ outputs' = st.outputs
             /\ core' = st.core
             /\ calls' = st.calls
             /\ io_failed' = (io_failed \/ ~ok)
             /\ ret' = Ret("cancel", port, tag, st.err, "None")
    /\ UNCHANGED <<fire_times, exec_st, closed, notified, bar>>

\* Mutant: close() returns at the first output whose close fails, as the
\* other loops over the outputs do.
close_stopping_at_failure ==
    /\ ~closed
    /\ is_finished
    /\ closed' = TRUE
    /\ \E failing \in SUBSET OutputPorts, debug \in BOOLEAN :
        LET reached == {o \in OutputPorts : \A f \in failing : o <= f}
        IN  /\ outputs' = [o \in OutputPorts |->
                             [outputs[o] EXCEPT !.closed = (o \in reached)]]
            /\ calls' = [k \in 1..Cardinality(reached) |->
                            Call("close", k - 1, NoTag, (k - 1) \notin failing)]
            /\ io_failed' = (io_failed \/ failing # {})
            /\ ret' = Ret("close", 0, NoTag,
                          IF failing # {} THEN "IOError"
                          ELSE IF debug /\ fire_times = 0 THEN "Panic" ELSE "Ok",
                          "None")
    /\ UNCHANGED <<inputs, core, fire_times, exec_st, notified, cancel_calls, bar>>

\* Operator::close, called once the operator is finished.  The statistics line divides exec_st by fire_times; it
\* is evaluated when debug logging is on.
close ==
    /\ ~closed
    /\ is_finished
    /\ closed' = TRUE
    /\ \E failing \in SUBSET OutputPorts, debug \in BOOLEAN :
        /\ outputs' = [o \in OutputPorts |-> [outputs[o] EXCEPT !.closed = TRUE]]
        /\ calls' = [k \in 1..Cardinality(OutputPorts) |->
                        Call("close", k - 1, NoTag, (k - 1) \notin failing)]
        /\ io_failed' = (io_failed \/ failing # {})
        /\ ret' = Ret("close", 0, NoTag,
                      IF debug /\ fire_times = 0 THEN "Panic" ELSE "Ok", "None")
    /\ UNCHANGED <<inputs, core, fire_times, exec_st, notified, cancel_calls, bar>>

Next ==
    \/ \E p \in InputPorts, t \in Tags : InputEnd(p, t)
    \/ \E p \in InputPorts : InputExhaust(p)
    \/ fire
    \/ \E o \in OutputPorts, t \in Tags : cancel(o, t)
    \/ close

Spec == Init /\ [][Next]_vars

\* ---------------------------------------------------------------- barriers alone
\* A fan-in and a fan-out barrier of bar.size ports are fed the reports of
\* the ports of one set, each port once, in the order run A gives them, and
\* another pair in the order run B gives them.
Orders(S) ==
    {f \in [1..Cardinality(S) -> S] : \A i, j \in DOMAIN f : i # j => f[i] # f[j]}

BarrierRun(n, order) ==
    [order |-> order, k |-> 0,
     mim |-> MultiInputsMerge_new(n, MaxScopeLevel),
     mom |-> MultiOutputsMerge_new(n, MaxScopeLevel),
     ends |-> <<>>, cancels |-> <<>>]

InitBarrier ==
    /\ InitOperator(0, 0)
    /\ \E n \in 2..MaxBarrierPorts, T \in Tags :
         \E S \in SUBSET (0..(n - 1)) :
           \E oa \in Orders(S), ob \in Orders(S) :
             bar = [size |-> n, tag |-> T, ports |-> S,
                    A |-> BarrierRun(n, oa), B |-> BarrierRun(n, ob)]

\* The next port of the run reports: merge_end and merge_cancel are called
\* with it; what they return is recorded with the position of the report.
Arrive(run) ==
    LET k == run.k + 1
        port == run.order[k]
        e == MultiInputsMerge_merge_end(run.mim,
                [port |-> port, tag |-> bar.tag, weight |-> WeightOf(<<port, bar.tag>>)])
        c == MultiOutputsMerge_merge_cancel(run.mom, [port |-> port, tag |-> bar.tag])
    IN  [run EXCEPT
            !.k = k,
            !.mim = e.self,
            !.mom = c.self,
            !.ends = IF e.ret = None THEN @
                     ELSE Append(@, [at |-> k, tag |-> e.ret[1].tag, weight |-> e.ret[1].weight]),
            !.cancels = IF c.ret = None THEN @ ELSE Append(@, [at |-> k, tag |-> c.ret[1]])]

ArriveA ==
    /\ bar.size > 0
    /\ bar.A.k < Len(bar.A.order)
    /\ bar' = [bar EXCEPT !.A = Arrive(@)]
    /\ UNCHANGED opvars

ArriveB ==
    /\ bar.size > 0
    /\ bar.B.k < Len(bar.B.order)
    /\ bar' = [bar EXCEPT !.B = Arrive(@)]
    /\ UNCHANGED opvars

NextBarrier == ArriveA \/ ArriveB

SpecBarrier == InitBarrier /\ [][NextBarrier]_vars

\* ---------------------------------------------------------------- barriers, many tags
\* One barrier of MaxBarrierPorts ports, a fan-in or a fan-out one, is
\* given reports for the root tag and the tags nested right under it, by
\* any port in any order, any number of times.
FrameTagIdx == {0, 1}
FrameTags == {<<>>} \cup {<<i>> : i \in FrameTagIdx}
FramePorts == 0..(MaxBarrierPorts - 1)

InitFrame ==
    /\ InitOperator(0, 0)
    /\ \E kind \in {"merge_end", "merge_cancel"} :
         bar = [size |-> Cardinality(FramePorts), kind |-> kind,
                mim |-> MultiInputsMerge_new(Cardinality(FramePorts), MaxScopeLevel),
                mom |-> MultiOutputsMerge_new(Cardinality(FramePorts), MaxScopeLevel),
                port |-> 0, tag |-> <<>>, ret |-> None]

\* mim.merge_end(EndScope { port, tag, weight })
FrameEnd(port, tag) ==
    /\ bar.kind = "merge_end"
    /\ LET e == MultiInputsMerge_merge_end(bar.mim,
                    [port |-> port, tag |-> tag, weight |-> WeightOf(<<port, <<>>>>)])
       IN  bar' = [bar EXCEPT !.mim = e.self, !.port = port, !.tag = tag,
                              !.ret = IF e.ret = None THEN None ELSE Some(e.ret[1].tag)]
    /\ UNCHANGED opvars

\* mom.merge_cancel(CancelScope { port, tag })
FrameCancel(port, tag) ==
    /\ bar.kind = "merge_cancel"
    /\ LET c == MultiOutputsMerge_merge_cancel(bar.mom, [port |-> port, tag |-> tag])
       IN  bar' = [bar EXCEPT !.mom = c.self, !.port = port, !.tag = tag, !.ret = c.ret]
    /\ UNCHANGED opvars

NextFrame ==
    \/ \E port \in FramePorts, tag \in FrameTags : FrameEnd(port, tag)
    \/ \E port \in FramePorts, tag \in FrameTags : FrameCancel(port, tag)

SpecFrame == InitFrame /\ [][NextFrame]_vars

\* ---------------------------------------------------------------- observations
NumInputs == Cardinality(InputPorts)
NumOutputs == Cardinality(OutputPorts)

\* The completion signals for tag T output o has received.
DeliveredEnds(o, T) == SelectSeq(outputs[o].ends, LAMBDA e : e.tag = T)
\* The inputs an EndScope for T has been given to on_notify from.
ReportedPorts(T) == {p \in InputPorts : notified[T][p] # <<>>}
\* The outputs cancel(port, T) has been called for, and those whose own
\* cancel(T) succeeded in such a call.
CalledPorts(T) == {o \in OutputPorts : cancel_calls[T][o] > 0}
OkPorts(T) == {o \in OutputPorts : T \in outputs[o].cancelled}
\* The inputs that have received cancel_scope(T).
CancelledInputs(T) ==
    {i \in InputPorts : \E k \in DOMAIN inputs[i].cancelled : inputs[i].cancelled[k] = T}

HasEndEntry(T) == core.mim # None /\ MapHas(core.mim[1].end_merge[Len(T)], T)
EndEntry(T) == core.mim[1].end_merge[Len(T)][T]
HasCancelEntry(T) == core.mom # None /\ MapHas(core.mom[1].cancel_merge[Len(T)], T)
CancelEntry(T) == core.mom[1].cancel_merge[Len(T)][T]

CallsOf(fn, T) == {k \in DOMAIN calls : calls[k].fn = fn /\ calls[k].tag = T}

\* ---------------------------------------------------------------- claims
\* C1: with N > 1 inputs, notify_end(T) is called on an output only when
\* all N input ports have had an EndScope for T given to on_notify; with at
\* most N-1 distinct ports reported, no output has received notify_end(T).
C1_EndOnlyAfterAllInputs ==
    NumInputs > 1 =>
        \A T \in Tags :
            (\/ \E o \in OutputPorts : DeliveredEnds(o, T) # <<>>
             \/ CallsOf("notify_end", T) # {})
            => ReportedPorts(T) = InputPorts

C1_Witness ==
    /\ NumInputs > 1
    /\ \E T \in Tags : \A o \in OutputPorts : DeliveredEnds(o, T) # <<>>
    /\ NumOutputs >= 1

\* C2 as stated: with M > 1 outputs and an input, an input has received
\* cancel_scope(T) only if cancel(p, T) was called for all M ports; after
\* calls covering fewer than M ports no input has received it and T has a
\* pending entry in the fan-out barrier.
C2_PendingAfterAnyCall ==
    (NumOutputs > 1 /\ NumInputs >= 1) =>
        \A T \in Tags :
            /\ CancelledInputs(T) # {} => CalledPorts(T) = OutputPorts
            /\ (CalledPorts(T) # {} /\ CalledPorts(T) # OutputPorts)
                => (CancelledInputs(T) = {} /\ HasCancelEntry(T))

\* C2 amended: ... after calls covering fewer than M ports no input has
\* received it, and T is pending with exactly the ports whose call got past
\* the output's own cancel (not pending when none did).
C2_CancelOnlyAfterAllOutputs ==
    (NumOutputs > 1 /\ NumInputs >= 1) =>
        \A T \in Tags :
            /\ CancelledInputs(T) # {} => CalledPorts(T) = OutputPorts
            /\ CalledPorts(T) # OutputPorts
                => /\ CancelledInputs(T) = {}
                   /\ HasCancelEntry(T) <=> OkPorts(T) # {}
                   /\ HasCancelEntry(T) => CancelEntry(T) = OkPorts(T)

C2_Witness ==
    /\ NumOutputs > 1 /\ NumInputs >= 1
    /\ \E T \in Tags :
        /\ HasCancelEntry(T)
        /\ CalledPorts(T) # OutputPorts
        /\ \E o \in OutputPorts : cancel_calls[T][o] > 1

\* C3: with N > 1 inputs, once every input port has reported the end of T
\* exactly once and no boundary call has failed, every output has received
\* exactly one notify_end for T, carrying the merge of the N weights.
C3_OneMergedEnd ==
    (NumInputs > 1 /\ ~io_failed) =>
        \A T \in Tags :
            (\A p \in InputPorts : Len(notified[T][p]) = 1)
            => \A o \in OutputPorts :
                /\ Len(DeliveredEnds(o, T)) = 1
                /\ DeliveredEnds(o, T)[1].weight =
                     MergeAll([k \in 1..NumInputs |-> notified[T][k - 1][1]])

C3_Witness ==
    /\ NumInputs > 1 /\ NumOutputs > 1 /\ ~io_failed
    /\ fire_times > 1
    /\ \E T \in Tags :
        /\ \A p \in InputPorts : Len(notified[T][p]) = 1
        /\ \A o \in OutputPorts : Len(DeliveredEnds(o, T)) = 1

\* C4: merge_end with an EndScope for T from a port already recorded in
\* T's pending entry returns nothing and leaves the barrier as it was.  It is
\* stated of the states where input p holds such a duplicate for extract_end.
C4_DuplicateEndIsNoOp ==
    \A T \in Tags : \A p \in InputPorts :
        (/\ HasEndEntry(T)
         /\ p \in EndEntry(T).count
         /\ inputs[p].ends # <<>>
         /\ Head(inputs[p].ends).tag = T)
        => LET r == MultiInputsMerge_merge_end(core.mim[1],
                        [port |-> p, tag |-> T, weight |-> Head(inputs[p].ends).weight])
           IN  r.ret = None /\ r.self = core.mim[1]

\* C5 as stated: with M > 1 outputs, a cancel(p, T) that is not the first
\* call for (p, T), made while T is pending, leaves the ports recorded for
\* T as they were and sends cancel_scope to no input.
C5_RepeatedCallIdempotent ==
    [][\A o \in OutputPorts : \A T \in Tags :
        (/\ NumOutputs > 1
         /\ ret'.op = "cancel" /\ ret'.port = o /\ ret'.tag = T
         /\ cancel_calls[T][o] >= 1
         /\ HasCancelEntry(T))
        => /\ HasCancelEntry(T)'
           /\ CancelEntry(T)' = CancelEntry(T)
           /\ \A i \in InputPorts : inputs'[i].cancelled = inputs[i].cancelled]_vars

\* C5 amended: with M > 1 outputs, cancel(p, T) while p is already recorded
\* in T's pending entry leaves the ports recorded for T as they were and
\* sends cancel_scope to no input.
C5_RecordedPortIdempotent ==
    [][\A o \in OutputPorts : \A T \in Tags :
        (/\ NumOutputs > 1
         /\ ret'.op = "cancel" /\ ret'.port = o /\ ret'.tag = T
         /\ HasCancelEntry(T)
         /\ o \in CancelEntry(T))
        => /\ HasCancelEntry(T)'
           /\ CancelEntry(T)' = CancelEntry(T)
           /\ \A i \in InputPorts : inputs'[i].cancelled = inputs[i].cancelled]_vars

C5_Witness ==
    /\ NumOutputs > 1 /\ ~io_failed
    /\ ret.op = "cancel" /\ ret.result = "Ok"
    /\ cancel_calls[ret.tag][ret.port] >= 2
    /\ HasCancelEntry(ret.tag)
    /\ ret.port \in CancelEntry(ret.tag)

\* C6: for a set of distinct ports each reporting once for T, any two
\* arrival orders give the same emissions (one, at the last arrival, iff the
\* set is all ports), the same pending ports and the same merged weight.
RunDone(run) == run.k = Len(run.order)
PendingEnd(run) == run.mim.end_merge[Len(bar.tag)]
PendingCancel(run) == run.mom.cancel_merge[Len(bar.tag)]
PendingEndPorts(run) ==
    IF MapHas(PendingEnd(run), bar.tag) THEN PendingEnd(run)[bar.tag].count ELSE {}
PendingEndWeight(run) ==
    IF MapHas(PendingEnd(run), bar.tag) THEN PendingEnd(run)[bar.tag].scope.weight
    ELSE ZeroWeight
PendingCancelPorts(run) ==
    IF MapHas(PendingCancel(run), bar.tag) THEN PendingCancel(run)[bar.tag] ELSE {}
AllPorts == 0..(bar.size - 1)

C6_OrderIndependent ==
    (bar.size > 0 /\ RunDone(bar.A) /\ RunDone(bar.B)) =>
        /\ bar.A.ends = bar.B.ends
        /\ bar.A.cancels = bar.B.cancels
        /\ Len(bar.A.ends) = (IF bar.ports = AllPorts THEN 1 ELSE 0)
        /\ Len(bar.A.cancels) = (IF bar.ports = AllPorts THEN 1 ELSE 0)
        /\ \A k \in DOMAIN bar.A.ends : bar.A.ends[k].at = Cardinality(bar.ports)
        /\ \A k \in DOMAIN bar.A.cancels : bar.A.cancels[k].at = Cardinality(bar.ports)
        /\ PendingEndPorts(bar.A) = PendingEndPorts(bar.B)
        /\ PendingEndPorts(bar.A) = (IF bar.ports = AllPorts THEN {} ELSE bar.ports)
        /\ PendingCancelPorts(bar.A) = PendingCancelPorts(bar.B)
        /\ PendingCancelPorts(bar.A) = (IF bar.ports = AllPorts THEN {} ELSE bar.ports)
        /\ PendingEndWeight(bar.A) = PendingEndWeight(bar.B)
        /\ DOMAIN PendingEnd(bar.A) = DOMAIN PendingEnd(bar.B)
        /\ DOMAIN PendingCancel(bar.A) = DOMAIN PendingCancel(bar.B)

C6_Witness ==
    /\ bar.size > 2
    /\ RunDone(bar.A) /\ RunDone(bar.B)
    /\ bar.ports = AllPorts
    /\ bar.A.order[1] # bar.B.order[1]
    /\ bar.A.order[bar.size] # bar.B.order[bar.size]
    /\ Len(bar.A.ends) = 1 /\ Len(bar.B.cancels) = 1

\* The calls right after call k are notify_end for k's tag, one to each
\* output, all succeeding.
DeliveredToAll(k) ==
    /\ k + NumOutputs <= Len(calls)
    /\ \A j \in (k + 1)..(k + NumOutputs) :
        calls[j].fn = "notify_end" /\ calls[j].tag = calls[k].tag /\ calls[j].ok
    /\ {calls[j].port : j \in (k + 1)..(k + NumOutputs)} = OutputPorts

\* The calls right after call k are notify_end for k's tag to distinct
\* outputs, the last of them failing and ending the operation.
DeliveredUntilFailure(k) ==
    \E f \in (k + 1)..(k + NumOutputs) :
        /\ f = Len(calls)
        /\ ~calls[f].ok
        /\ \A j \in (k + 1)..f :
            calls[j].fn = "notify_end" /\ calls[j].tag = calls[k].tag
        /\ \A j \in (k + 1)..(f - 1) : calls[j].ok
        /\ \A i, j \in (k + 1)..f : i # j => calls[i].port # calls[j].port

\* A cancel() whose calls are the output's cancel and then cancel_scope of
\* its tag on every input, in port order.
CancelPassedOn ==
    calls = <<Call("cancel", ret.port, ret.tag, TRUE)>> \o
            [i \in 1..NumInputs |-> Call("cancel_scope", i - 1, ret.tag, TRUE)]

WeightsOf(ends) == [k \in DOMAIN ends |-> ends[k].weight]

\* What C7 says of end signals and of merge state.
C7_EndsPassThrough ==
    /\ core.mim = None /\ core.mom = None
    /\ \A k \in DOMAIN calls : calls[k].fn = "extract_end" =>
        /\ k < Len(calls)
        /\ calls[k + 1].fn = "notify_end"
        /\ calls[k + 1].port = 0
        /\ calls[k + 1].tag = calls[k].tag
    /\ \A T \in Tags :
        /\ Len(DeliveredEnds(0, T)) <= Len(notified[T][0])
        /\ ~io_failed => WeightsOf(DeliveredEnds(0, T)) = notified[T][0]

\* C7 as stated: with one input and one output every EndScope given to
\* on_notify has notify_end called on the output in that call, every
\* cancel(0, T) has cancel_scope(T) called on the input in that call, and
\* there is no merge state.
C7_EveryCancelPassesThrough ==
    (NumInputs = 1 /\ NumOutputs = 1) =>
        /\ C7_EndsPassThrough
        /\ ret.op = "cancel" => CancelPassedOn

\* C7 amended: ... every cancel(0, T) in which the output's own cancel(T)
\* succeeds has cancel_scope(T) called on the input in that call (when it
\* fails, cancel returns the error and the input is not called) ...
C7_SisoPassesThrough ==
    (NumInputs = 1 /\ NumOutputs = 1) =>
        /\ C7_EndsPassThrough
        /\ ret.op = "cancel" =>
            IF calls[1].ok THEN CancelPassedOn
            ELSE calls = <<Call("cancel", ret.port, ret.tag, FALSE)>>

C7_Witness ==
    /\ NumInputs = 1 /\ NumOutputs = 1
    /\ ret.op = "cancel" /\ ret.result = "Ok"
    /\ inputs[0].cancelled = <<ret.tag>>
    /\ DeliveredEnds(0, ret.tag) # <<>>

\* What C8 says of the selector and of the signals that wait.
C8_BarriersWhereNeeded ==
    /\ core.mim # None <=> NumInputs > 1
    /\ core.mom # None <=> NumOutputs > 1
    /\ NumInputs > 1 =>
        \A T \in Tags : CallsOf("notify_end", T) # {} => ReportedPorts(T) = InputPorts
    /\ (NumOutputs > 1 /\ NumInputs >= 1) =>
        \A T \in Tags :
            (CallsOf("cancel_scope", T) # {} \/ CancelledInputs(T) # {})
            => CalledPorts(T) = OutputPorts

\* C8 as stated: the fan-in barrier is applied iff there are several
\* inputs and the fan-out barrier iff there are several outputs; with N > 1
\* inputs and one output every cancel(0, T) sends cancel_scope(T) to all
\* inputs at once, with one input and M > 1 outputs every EndScope is
\* delivered to all M outputs at once.
C8_EverySignalPassesThrough ==
    /\ C8_BarriersWhereNeeded
    /\ (NumInputs > 1 /\ NumOutputs = 1 /\ ret.op = "cancel") => CancelPassedOn
    /\ (NumInputs = 1 /\ NumOutputs > 1) =>
        \A k \in DOMAIN calls : calls[k].fn = "extract_end" => DeliveredToAll(k)

\* C8 amended: ... every cancel(0, T) in which the output's own cancel(T)
\* succeeds sends cancel_scope(T) to all inputs at once; every EndScope is
\* at once delivered to the outputs, to all M of them unless a notify_end
\* fails, which ends the delivery.
C8_SelectorPassesThrough ==
    /\ C8_BarriersWhereNeeded
    /\ (NumInputs > 1 /\ NumOutputs = 1 /\ ret.op = "cancel") =>
        IF calls[1].ok THEN CancelPassedOn
        ELSE calls = <<Call("cancel", ret.port, ret.tag, FALSE)>>
    /\ (NumInputs = 1 /\ NumOutputs > 1) =>
        \A k \in DOMAIN calls : calls[k].fn = "extract_end" =>
            DeliveredToAll(k) \/ DeliveredUntilFailure(k)

C8_Witness ==
    /\ NumInputs > 1 /\ NumOutputs = 1
    /\ ret.op = "cancel" /\ ret.result = "Ok"
    /\ \A i \in InputPorts : inputs[i].cancelled = <<ret.tag>>
    /\ \E T \in Tags : HasEndEntry(T)

\* The fire() just made (in a step) and what it did.
FireStep == fire_times' = fire_times + 1 /\ ret'.op = "fire"
CallsTo(cs, fn, port) == Len(SelectSeq(cs, LAMBDA c : c.fn = fn /\ c.port = port))
EndsOfTag(ends, T) == Len(SelectSeq(ends, LAMBDA e : e.tag = T))

\* Every end record pending before the step was extracted and given to
\* on_notify, and then every output was flushed.
DrainedAndFlushed ==
    /\ \A p \in InputPorts :
        /\ inputs'[p].ends = <<>>
        /\ CallsTo(calls', "extract_end", p) = Len(inputs[p].ends)
        /\ \A T \in Tags :
            Len(notified'[T][p]) = Len(notified[T][p]) + EndsOfTag(inputs[p].ends, T)
    /\ \A o \in OutputPorts : CallsTo(calls', "flush", o) = 1
    /\ \A i, j \in DOMAIN calls' :
        (calls'[i].fn = "flush" /\ calls'[j].fn \in {"extract_end", "notify_end"}) => j < i
    /\ \A k \in DOMAIN calls' : calls'[k].fn = "flush" => calls'[k].ok

C10_FatalReturnsAtOnce ==
    [][(FireStep /\ ret'.recv = "Fatal") =>
        /\ ret'.result = "Fatal"
        /\ inputs' = inputs
        /\ core' = core
        /\ notified' = notified
        /\ \A o \in OutputPorts :
            /\ outputs'[o].ends = outputs[o].ends
            /\ \A t \in DOMAIN outputs'[o].blocks : outputs'[o].blocks[t] = InputPorts
        /\ \A k \in DOMAIN calls' :
            /\ calls'[k].fn \in {"try_unblock", "on_receive", "block"}
            /\ calls'[k].fn = "block" =>
                \E j \in 1..(k - 1) : calls'[j].fn = "on_receive"]_vars

C10_Witness ==
    /\ ret.op = "fire" /\ ret.recv = "Fatal" /\ ret.result = "Fatal"
    /\ \E p \in InputPorts : inputs[p].ends # <<>>
    /\ \E T \in Tags : HasEndEntry(T)
    /\ \E k \in DOMAIN calls : calls[k].fn = "block"

\* The notify_end and cancel_scope calls of the last operation, in order.
NotifyCalls == SelectSeq(calls, LAMBDA c : c.fn = "notify_end")
CancelScopeCalls == SelectSeq(calls, LAMBDA c : c.fn = "cancel_scope")

\* The notify_end calls come in rounds, one round per merged signal: the
\* call at place j (from 0) of a round goes to output j, or with zeroLast
\* to output j + 1 and the last call of the round to output 0, with the
\* round's tag; a round is cut short only by a failing call, which is the
\* last call of all.
NotifyRounds(zeroLast) ==
    LET ns == NotifyCalls
        M == NumOutputs
        PortAt(j) == IF ~zeroLast THEN j
                     ELSE IF j = M - 1 THEN 0 ELSE j + 1
    IN  \A k \in DOMAIN ns :
            /\ ns[k].port = PortAt((k - 1) % M)
            /\ ns[k].tag = ns[k - ((k - 1) % M)].tag
            /\ ~ns[k].ok => k = Len(ns)
            /\ (k = Len(ns) /\ ns[k].ok) => k % M = 0

\* cancel_scope is called by cancel(port, T) only, on no input or on every
\* input with tag T, in ascending port order.
CancelScopeAscending ==
    IF ret.op = "cancel"
    THEN CancelScopeCalls \in
            {<<>>, [i \in 1..NumInputs |-> Call("cancel_scope", i - 1, ret.tag, TRUE)]}
    ELSE CancelScopeCalls = <<>>

\* C11 as stated: a merged completion signal has notify_end called on every
\* output in ascending port order (0, 1, ..., M-1), and an agreed cancel
\* has cancel_scope called on every input in ascending port order.
C11_NotifyAscending ==
    /\ NotifyRounds(FALSE)
    /\ CancelScopeAscending

\* C11 amended: a merged completion signal has notify_end called on the
\* outputs 1, ..., M-1 in ascending order and on output 0 last, the calls
\* stopping at the first one that fails; an agreed cancel has cancel_scope
\* called on every input in ascending port order.
C11_NotifyZeroLast ==
    /\ NotifyRounds(TRUE)
    /\ CancelScopeAscending

C11_Witness ==
    /\ ret.op = "fire" /\ ret.result = "Ok"
    /\ NumOutputs > 1 /\ NumInputs > 1
    /\ Len(NotifyCalls) = NumOutputs
    /\ NotifyCalls[Len(NotifyCalls)].port = 0

\* The blocked scopes all outputs report, and the inputs not yet exhausted.
BlockedScopes == {x \in OutputPorts \X Tags : x[2] \in DOMAIN outputs[x[1]].blocks}
LiveInputs == {i \in InputPorts : ~inputs[i].exhaust}

\* C12: is_finished() is true iff no output has a pending blocked scope
\* and (the operator has no inputs or every input is exhausted); with all
\* inputs exhausted and an output blocked it is false.
C12_FinishedIff ==
    /\ is_finished <=> (BlockedScopes = {} /\ (NumInputs = 0 \/ LiveInputs = {}))
    /\ (LiveInputs = {} /\ BlockedScopes # {}) => ~is_finished

C12_Witness ==
    /\ NumInputs > 0 /\ LiveInputs = {}
    /\ Cardinality(BlockedScopes) = 1
    /\ ~is_finished
    /\ ret.op = "input_exhaust"

\* C13: the fire count starts at 0; every fire(), whatever it returns,
\* adds exactly one to it and adds one measured time to exec_st (the drop
\* of Finally runs once); no other operation changes either.
C13_FireCounted ==
    /\ (ret.op = "build" => (fire_times = 0 /\ exec_st = 0))
    /\ [][/\ ret'.op = "fire" =>
              /\ ret'.result \in {"Ok", "IOError", "Fatal", "Retry"}
              /\ fire_times' = fire_times + 1
              /\ \E e \in Elapsed : exec_st' = exec_st + e
          /\ ret'.op # "fire" =>
              (fire_times' = fire_times /\ exec_st' = exec_st)]_vars

\* A second fire() that returned at a failing try_unblock, then a cancel.
C13_Witness ==
    /\ fire_times = 2 /\ exec_st = 2
    /\ ret.op = "cancel"
    /\ io_failed
    /\ \A o \in OutputPorts : outputs[o].ends = <<>>
    /\ \E p \in InputPorts : inputs[p].ends # <<>>

\* C14: close() calls close on every output exactly once, in port order;
\* a failing close stops nothing and is not returned or raised (close ends
\* abnormally only in the statistics line, after the last output).
C14_CloseEveryOutput ==
    [][ret'.op = "close" =>
        /\ Len(calls') = NumOutputs
        /\ \A k \in DOMAIN calls' :
            calls'[k].fn = "close" /\ calls'[k].port = k - 1
        /\ \A o \in OutputPorts : outputs'[o].closed /\ ~outputs[o].closed
        /\ ret'.result # "IOError"
        /\ (\E k \in DOMAIN calls' : ~calls'[k].ok) =>
              (ret'.result = "Ok" \/ fire_times = 0)]_vars

C14_Witness ==
    /\ ret.op = "close" /\ ret.result = "Ok"
    /\ NumOutputs > 1
    /\ ~calls[1].ok
    /\ \A o \in OutputPorts : outputs[o].closed

\* The scopes on_receive left newly blocked in the last operation, as
\* (output, tag) pairs, and the block(tag) calls made on input i.
NewBlocks(cs) ==
    {<<c.blocked[1].port, c.blocked[1].tag>> :
        c \in {cs[k] : k \in {j \in DOMAIN cs :
                  cs[j].fn = "on_receive" /\ cs[j].blocked # None}}}
BlockCalls(cs, i, T) ==
    Len(SelectSeq(cs, LAMBDA c : c.fn = "block" /\ c.port = i /\ c.tag = T))

\* C15: after a fire() in which every try_unblock succeeded, whatever
\* on_receive returned, every blocked scope of every output has every
\* input registered; block(tag) was called on an input once for each
\* output newly blocked on tag, and not for the scopes registered before.
C15_BlocksRegistered ==
    [][(FireStep /\ ret'.recv # "None") =>
        /\ \A o \in OutputPorts : \A t \in DOMAIN outputs'[o].blocks :
              outputs'[o].blocks[t] = InputPorts
        /\ \A x \in NewBlocks(calls') : x[2] \in DOMAIN outputs'[x[1]].blocks
        /\ \A i \in InputPorts, T \in Tags :
              BlockCalls(calls', i, T) =
                  Cardinality({x \in NewBlocks(calls') : x[2] = T})]_vars

\* A fatal fire that blocks a scope while another scope stays blocked
\* (and registered) from the fire before.
C15_Witness ==
    /\ ret.op = "fire" /\ ret.recv = "Fatal"
    /\ fire_times = 2
    /\ NumInputs > 1
    /\ Cardinality(NewBlocks(calls)) = 1
    /\ Cardinality(BlockedScopes) = 2
    /\ \A i \in InputPorts : \E T \in Tags : BlockCalls(calls, i, T) = 1

\* What a barrier's per-depth maps hold for tag T: nothing, or the entry.
EntryOf(maps, T) == IF MapHas(maps[Len(T)], T) THEN Some(maps[Len(T)][T]) ELSE None
Nested(T, U) == Len(T) < Len(U) /\ SubSeq(U, 1, Len(T)) = T

\* C16: merge_end for T leaves the fan-in entry of every other tag as it
\* was and merge_cancel for T the fan-out entry of every other tag, tags
\* of another depth that extend T or are a prefix of it included; the map
\* of a depth holds tags of that depth only.
C16_OtherTagsUnchanged ==
    /\ [][\A U \in FrameTags \ {bar'.tag} :
            /\ EntryOf(bar'.mim.end_merge, U) = EntryOf(bar.mim.end_merge, U)
            /\ EntryOf(bar'.mom.cancel_merge, U) = EntryOf(bar.mom.cancel_merge, U)]_vars
    /\ [](\A d \in 0..MaxScopeLevel :
            /\ \A U \in DOMAIN bar.mim.end_merge[d] : Len(U) = d
            /\ \A U \in DOMAIN bar.mom.cancel_merge[d] : Len(U) = d)

\* A parent tag has just been fully cancelled while a tag nested under it
\* and a tag beside it are pending.
C16_Witness ==
    /\ bar.kind = "merge_cancel"
    /\ bar.ret = Some(bar.tag)
    /\ \E U \in FrameTags :
        Nested(bar.tag, U) /\ EntryOf(bar.mom.cancel_merge, U) # None
    /\ Cardinality({U \in FrameTags : EntryOf(bar.mom.cancel_merge, U) # None}) > 1

\* The ports recorded for T in the fan-out barrier c (none when there is
\* no barrier or no entry).
RecordedFor(c, T) ==
    IF c.mom # None /\ MapHas(c.mom[1].cancel_merge[Len(T)], T)
    THEN c.mom[1].cancel_merge[Len(T)][T] ELSE {}

\* C17: cancel(port, T) first calls cancel(T) on output port.  If that
\* fails, cancel returns the error with the barrier and the inputs as they
\* were and no further call; if it succeeds, the request goes through
\* on_cancel: with inputs and a barrier, port is recorded for T or T is
\* agreed and every input gets cancel_scope(T), after the output's cancel.
C17_OutputCancelFirst ==
    [][ret'.op = "cancel" =>
        LET port == ret'.port
            T == ret'.tag
        IN  /\ calls'[1].fn = "cancel" /\ calls'[1].port = port /\ calls'[1].tag = T
            /\ \A k \in 2..Len(calls') :
                  calls'[k].fn = "cancel_scope" /\ calls'[k].tag = T
            /\ IF calls'[1].ok
               THEN /\ ret'.result = "Ok"
                    /\ T \in outputs'[port].cancelled
                    /\ NumInputs = 0 => (core' = core /\ Len(calls') = 1)
                    /\ (NumInputs > 0 /\ NumOutputs > 1) =>
                          \/ /\ RecordedFor(core', T) = RecordedFor(core, T) \cup {port}
                             /\ RecordedFor(core', T) # OutputPorts
                             /\ Len(calls') = 1
                          \/ /\ RecordedFor(core, T) \cup {port} = OutputPorts
                             /\ RecordedFor(core', T) = {}
                             /\ Len(calls') = 1 + NumInputs
                    /\ (NumInputs > 0 /\ NumOutputs = 1) => Len(calls') = 1 + NumInputs
               ELSE /\ ret'.result = "IOError"
                    /\ Len(calls') = 1
                    /\ core' = core
                    /\ inputs' = inputs
                    /\ outputs' = outputs]_vars

\* A cancel that failed at the output while the other output's request for
\* the tag is pending: the entry is as it was, the port not recorded.
C17_Witness ==
    /\ ret.op = "cancel" /\ ret.result = "IOError"
    /\ NumInputs > 0
    /\ RecordedFor(core, ret.tag) # {}
    /\ ret.port \notin RecordedFor(core, ret.tag)
    /\ CancelledInputs(ret.tag) = {}

\* The ports an entry of a barrier records for T (none without an entry).
EndPorts(maps, T) == IF MapHas(maps[Len(T)], T) THEN maps[Len(T)][T].count ELSE {}
CancelPorts(maps, T) == IF MapHas(maps[Len(T)], T) THEN maps[Len(T)][T] ELSE {}

\* C18: every entry of a fan-in barrier of N ports records between 1 and
\* N-1 ports and every entry of a fan-out barrier of M ports between 1
\* and M-1; the call that returns the merged end or the agreed tag is the
\* one that completes the ports, and it leaves no entry for the tag.
C18_EntriesPartial ==
    /\ [](\A T \in FrameTags :
            /\ EntryOf(bar.mim.end_merge, T) # None =>
                /\ EndPorts(bar.mim.end_merge, T) \subseteq FramePorts
                /\ Cardinality(EndPorts(bar.mim.end_merge, T)) \in 1..(bar.size - 1)
            /\ EntryOf(bar.mom.cancel_merge, T) # None =>
                /\ CancelPorts(bar.mom.cancel_merge, T) \subseteq FramePorts
                /\ Cardinality(CancelPorts(bar.mom.cancel_merge, T)) \in 1..(bar.size - 1))
    /\ [][bar'.ret # None =>
            /\ bar'.ret = Some(bar'.tag)
            /\ EntryOf(bar'.mim.end_merge, bar'.tag) = None
            /\ EntryOf(bar'.mom.cancel_merge, bar'.tag) = None
            /\ (EndPorts(bar.mim.end_merge, bar'.tag)
                  \cup CancelPorts(bar.mom.cancel_merge, bar'.tag)
                  \cup {bar'.port}) = FramePorts]_vars

\* A merged end has just been returned for one tag while another tag has
\* all ports but one recorded.
C18_Witness ==
    /\ bar.kind = "merge_end"
    /\ bar.ret = Some(bar.tag)
    /\ bar.size > 2
    /\ \E U \in FrameTags :
        Cardinality(EndPorts(bar.mim.end_merge, U)) = bar.size - 1

\* The boundary calls of cs that failed (on_receive is the computation,
\* not a boundary call), and the input of the last extract_end of cs.
FailedIO(cs) == {k \in DOMAIN cs : ~cs[k].ok /\ cs[k].fn # "on_receive"}
LastExtracted(cs) ==
    LET E == {k \in DOMAIN cs : cs[k].fn = "extract_end"}
    IN  cs[CHOOSE k \in E : \A j \in E : j <= k].port
OkNotifies(cs, o) ==
    Len(SelectSeq(cs, LAMBDA c : c.fn = "notify_end" /\ c.port = o /\ c.ok))

\* C19: a try_unblock, notify_end or flush that fails in fire() is the
\* last call fire makes and its error is what fire returns, a remembered
\* retryable error notwithstanding: after a failing try_unblock on_receive
\* is not called; after a failing notify_end no further output gets the
\* signal, no further end record is extracted and nothing is flushed;
\* after a failing flush the outputs behind it are not flushed.
C19_IOFailureAborts ==
    [][FireStep =>
        LET cs == calls'
            last == cs[Len(cs)]
        IN  /\ ret'.result = "IOError" <=> FailedIO(cs) # {}
            /\ FailedIO(cs) # {} =>
                /\ FailedIO(cs) = {Len(cs)}
                /\ last.fn \in {"try_unblock", "notify_end", "flush"}
                /\ last.fn = "try_unblock" =>
                    /\ ret'.recv = "None"
                    /\ \A k \in DOMAIN cs : cs[k].fn = "try_unblock"
                    /\ inputs' = inputs /\ core' = core
                /\ last.fn = "notify_end" =>
                    /\ CountCalls(cs, "flush") = 0
                    /\ \A o \in OutputPorts :
                        Len(outputs'[o].ends) = Len(outputs[o].ends) + OkNotifies(cs, o)
                    /\ outputs'[last.port].ends = outputs[last.port].ends
                          \o [k \in 1..OkNotifies(cs, last.port) |->
                                outputs'[last.port].ends[Len(outputs[last.port].ends) + k]]
                    /\ \A p \in InputPorts :
                        /\ Len(inputs'[p].ends) =
                              Len(inputs[p].ends) - CallsTo(cs, "extract_end", p)
                        /\ p > LastExtracted(cs) => inputs'[p].ends = inputs[p].ends
                /\ last.fn = "flush" =>
                    \A o \in OutputPorts : o > last.port => CallsTo(cs, "flush", o) = 0]_vars

\* A fire whose on_receive asked for a retry and whose first notify_end of
\* a merged signal failed: the other output is without the signal, an end
\* record is left on an input, no output was flushed.
C19_Witness ==
    /\ ret.op = "fire" /\ ret.recv = "Retry" /\ ret.result = "IOError"
    /\ NumInputs > 1 /\ NumOutputs > 1
    /\ calls[Len(calls)].fn = "notify_end"
    /\ \A o \in OutputPorts : outputs[o].ends = <<>>
    /\ \E p \in InputPorts : inputs[p].ends # <<>>
    /\ CountCalls(calls, "flush") = 0

\* C20: close() ends normally for every operator that may be closed, one
\* never fired included: the statistics it reports (busy time, fire count,
\* time per fire) are computed without failing.
C20_CloseNeverFails ==
    ret.op = "close" => ret.result = "Ok"

====
